---- MODULE Spec2Model ----
(***************************************************************************)
(* octoprint-manager: the container lifecycle of src/utils/docker.go and   *)
(* the HTTP handlers of main (src/unnamed/part_000).                       *)
(*                                                                         *)
(* State: the rows of the sqlite table "containers", the Docker runtime's  *)
(* containers named "octoprint-<id>", the storage directories, the         *)
(* startup reconciliation pass (RecreateAllContainers) and                  *)
(* the position of every request handler that is in flight.  Every handler *)
(* takes one step per call it makes on the database, the filesystem or the *)
(* Docker daemon, so that concurrent requests interleave at those calls.   *)
(* The outcome of a call on an external collaborator (daemon, filesystem,  *)
(* database) is an input: a call may fail whenever the collaborator allows *)
(* it, and must fail when the collaborator's rules say so (a name that is  *)
(* taken, a host port that is bound, a container that is not there).       *)
(* The failures modelled are those of the Docker daemon, of the device      *)
(* symlink, of the startup query and of the INSERT and DELETE statements;   *)
(* the other reads of the table and the directory calls are taken to        *)
(* succeed.  The containerStatus map of part_000 is kept only as the value  *)
(* the startup pass returns: no handler's behaviour depends on it.          *)
(***************************************************************************)
EXTENDS Integers, Sequences, FiniteSets, TLC

\* ------------------------------------------------------------------ bounds

\* Identities are uuids (docker.go:106): the model hands out 1, 2, ... and
\* stops accepting create requests after MaxIds of them.
MaxIds == 2

\* Device names under /dev/serial/by-id and display names sent by clients.
Devices == {"usbA", "usbB"}
Names == {"Printer-1"}

\* The rows of earlier runs that SpecPort starts from: their identities, and
\* their ports BasePort .. BasePort + PortSpan.
StoredIds == {101, 102}
PortSpan == 3

\* Request handlers: fiber serves each request on its own goroutine.
Handlers == {"h1", "h2"}
SeqHandlers == {"h1"}

\* ------------------------------------------------------- program constants

\* docker.go:99, the port of the first container.
BasePort == 2000

Ids == 1..MaxIds

StoredPorts == BasePort..(BasePort + PortSpan)

NullName == "NULL"

VARIABLES
    records,          \* table containers: id -> [device, port, name]; DOMAIN = the rows
    inst,             \* Docker: id -> container "octoprint-<id>" [st, port, dev]
    dirs,             \* ids whose storage directory exists
    phase,            \* "startup" (reconciling), "serving", "halted" (log.Fatal)
    rec,              \* the RecreateAllContainers pass of the startup
    th,               \* handler -> its request in flight
    nextId            \* the next fresh uuid

vars == <<records, inst, dirs, phase, rec, th, nextId>>

\* ----------------------------------------------------------------- values

Absent == [st |-> "absent", port |-> 0, dev |-> ""]

NoRes == [status |-> 0, error |-> ""]

Idle == [op |-> "idle", pc |-> "idle", id |-> 0, dev |-> "", port |-> 0,
         name |-> "", calls |-> <<>>, affected |-> 0, err |-> "", res |-> NoRes,
         list |-> <<>>]

NoRow == [id |-> 0, device |-> "", port |-> 0]

EmptyMap == [i \in {} |-> TRUE]

Max(S) == CHOOSE x \in S : \A y \in S : y <= x

\* A call on the Docker daemon as a handler's log keeps it, with its result.
Call(op, id, port, dev, err) ==
    [op |-> op, id |-> id, port |-> port, dev |-> dev, err |-> err]

\* m[k] = v for a Go map m.
MapSet(m, k, v) == [i \in DOMAIN m \cup {k} |-> IF i = k THEN v ELSE m[i]]

\* A DELETE whose WHERE clause matches no row.
MapDel_None(m, k) == m

\* DELETE ... WHERE id = k on the table m.
MapDel(m, k) == [i \in DOMAIN m \ {k} |-> m[i]]

\* The ids of a set in ascending order: sqlite returns the rows of a table
\* without ORDER BY in rowid order, which is the order of insertion.
RECURSIVE SortedIds(_)
SortedIds(S) ==
    IF S = {} THEN <<>>
    ELSE LET m == CHOOSE x \in S : \A y \in S : x <= y
         IN <<m>> \o SortedIds(S \ {m})

\* ----------------------------------------------------------- Docker daemon

Exists(id) == inst[id].st # "absent"

\* Docker binds the host port when a container starts: a start fails while
\* another running container holds the port.
PortBusy(id, port) ==
    \E j \in Ids : j # id /\ inst[j].st = "running" /\ inst[j].port = port

\* cli.ContainerInspect(name): "running" / "stopped" when it answers, "error"
\* for any err != nil (no such container, or the daemon failing).
ContainerInspect(id) ==
    IF Exists(id) THEN {inst[id].st, "error"} ELSE {"error"}

\* cli.ContainerStart(name): the possible results [err, inst].
ContainerStart(id) ==
    {[err |-> "start", inst |-> inst]}
    \cup (IF Exists(id) /\ ~PortBusy(id, inst[id].port)
          THEN {[err |-> "nil", inst |-> [inst EXCEPT ![id].st = "running"]]}
          ELSE {})

\* cli.ContainerRestart(name).
ContainerRestart(id) ==
    {[err |-> "restart", inst |-> inst]}
    \cup (IF Exists(id) /\ ~PortBusy(id, inst[id].port)
          THEN {[err |-> "nil", inst |-> [inst EXCEPT ![id].st = "running"]]}
          ELSE {})

\* cli.ContainerStop(name, timeout 10).
ContainerStop(id) ==
    {[err |-> "stop", inst |-> inst]}
    \cup (IF Exists(id)
          THEN {[err |-> "nil", inst |-> [inst EXCEPT ![id].st = "stopped"]]}
          ELSE {})

\* cli.ContainerRemove(name, Force).
ContainerRemove(id) ==
    {[err |-> "remove", inst |-> inst]}
    \cup (IF Exists(id)
          THEN {[err |-> "nil", inst |-> [inst EXCEPT ![id] = Absent]]}
          ELSE {})

\* createOctoPrintContainer: EvalSymlinks, ContainerCreate, ContainerStart.
\* The possible results [err, inst]: the symlink does not resolve; the create
\* fails (it must when the name is taken); the container is created and its
\* start fails (it must when the host port is bound), which leaves it behind
\* stopped; or it is created and running, bound to device and port.
createOctoPrintContainer(id, device, port) ==
    {[err |-> "symlink", inst |-> inst], [err |-> "create", inst |-> inst]}
    \cup (IF ~Exists(id)
          THEN {[err |-> "start",
                 inst |-> [inst EXCEPT ![id] =
                              [st |-> "stopped", port |-> port, dev |-> device]]]}
               \cup (IF ~PortBusy(id, port)
                     THEN {[err |-> "nil",
                            inst |-> [inst EXCEPT ![id] =
                               [st |-> "running", port |-> port, dev |-> device]]]}
                     ELSE {})
          ELSE {})

\* ------------------------------------------------------------ port allocator

\* The allocator without its "+ 1" (docker.go:102).
getNextAvailablePort_NoIncrement(recs) ==
    IF DOMAIN recs = {} THEN BasePort
    ELSE Max({recs[i].port : i \in DOMAIN recs})

\* The allocator counting the rows instead of taking their maximum.
getNextAvailablePort_Count(recs) == BasePort + Cardinality(DOMAIN recs)

\* getNextAvailablePort: SELECT MAX(port); 2000 for NULL, else max + 1.
getNextAvailablePort(recs) ==
    IF DOMAIN recs = {} THEN BasePort
    ELSE Max({recs[i].port : i \in DOMAIN recs}) + 1

\* ------------------------------------------------------------------- Init

\* The pass before its query: RecreateAllContainers' locals (rows, errors),
\* the row in hand with what inspect said of it, what the pass returns
\* (res, status), and log, the record of what it did with each row.
RecIdle == [pc |-> "query", rows |-> <<>>, cur |-> NoRow, insp |-> "",
            errors |-> <<>>, status |-> EmptyMap, res |-> "", log |-> <<>>]

Init ==
    /\ records = EmptyMap
    /\ inst = [i \in Ids |-> Absent]
    /\ dirs = {}
    /\ phase = "startup"
    /\ rec = RecIdle
    /\ th = [h \in Handlers |-> Idle]
    /\ nextId = 1

\* app.Listen has been reached and handler h is free to take a request.
Serving(h) == phase = "serving" /\ th[h] = Idle

\* Identities a client can name: those handed out so far.
Known == 1..(nextId - 1)

\* The handler has written its response: c.Status(status).JSON({"error": error}).
Respond(t, err, status, error) ==
    [t EXCEPT !.pc = "ret", !.err = err, !.res = [status |-> status, error |-> error]]

\* ------------------------------------------------- POST /api/newcontainer

\* part_000:197-209 after CreateNewContainer returned err.
CreateRespond(t, err) ==
    IF err = "nil" THEN Respond(t, err, 200, "false")
    ELSE Respond(t, err, 500, "Failed to create container")

\* uuid.New and getNextAvailablePort (docker.go:106-110).
CreateAlloc(h, device) ==
    /\ Serving(h)
    /\ nextId <= MaxIds
    /\ nextId' = nextId + 1
    /\ th' = [th EXCEPT ![h] = [Idle EXCEPT !.op = "create", !.pc = "mkdir",
                 !.id = nextId, !.dev = device,
                 !.port = getNextAvailablePort(records)]]
    /\ UNCHANGED <<records, inst, dirs, phase, rec>>

\* The row inserted as soon as the directory is there, before the container
\* is created.
CreateMkdir_InsertEarly(h) ==
    /\ th[h].op = "create" /\ th[h].pc = "mkdir"
    /\ dirs' = dirs \cup {th[h].id}
    /\ records' = MapSet(records, th[h].id,
          [device |-> th[h].dev, port |-> th[h].port, name |-> NullName])
    /\ th' = [th EXCEPT ![h].pc = "runtime"]
    /\ UNCHANGED <<inst, phase, rec, nextId>>

\* os.MkdirAll of the volume directory (docker.go:112-115).
CreateMkdir(h) ==
    /\ th[h].op = "create" /\ th[h].pc = "mkdir"
    /\ dirs' = dirs \cup {th[h].id}
    /\ th' = [th EXCEPT ![h].pc = "runtime"]
    /\ UNCHANGED <<records, inst, phase, rec, nextId>>

\* The INSERT reached whatever createOctoPrintContainer returned.
CreateAfterRuntime_Always(err) == "insert"

\* The branch of docker.go:118-120: the row is inserted only when the
\* runtime instance was created and started.
CreateAfterRuntime(err) == IF err = "nil" THEN "insert" ELSE "ret"

\* The calls createOctoPrintContainer made on the daemon: none when the
\* symlink did not resolve (docker.go:28-31).
RuntimeCalls(calls, id, port, dev, err) ==
    IF err = "symlink" THEN calls
    ELSE Append(calls, Call("create", id, port, dev, err))

\* createOctoPrintContainer from CreateNewContainer (docker.go:117-120).
CreateRuntime(h) ==
    /\ th[h].op = "create" /\ th[h].pc = "runtime"
    /\ \E o \in createOctoPrintContainer(th[h].id, th[h].dev, th[h].port) :
          LET t == [th[h] EXCEPT !.calls =
                       RuntimeCalls(@, th[h].id, th[h].port, th[h].dev, o.err)]
          IN /\ inst' = o.inst
             /\ th' = [th EXCEPT ![h] =
                          IF CreateAfterRuntime(o.err) = "insert"
                          THEN [t EXCEPT !.pc = "insert"]
                          ELSE CreateRespond(t, o.err)]
    /\ UNCHANGED <<records, dirs, phase, rec, nextId>>

\* INSERT INTO containers (id, device, port) (docker.go:122-127), and the
\* handler's response.
CreateInsert(h) ==
    /\ th[h].op = "create" /\ th[h].pc = "insert"
    /\ \E err \in {"nil", "failed to insert new container into database"} :
          /\ records' = IF err = "nil"
                        THEN MapSet(records, th[h].id,
                                [device |-> th[h].dev, port |-> th[h].port,
                                 name |-> NullName])
                        ELSE records
          /\ th' = [th EXCEPT ![h] = CreateRespond(@, err)]
    /\ UNCHANGED <<inst, dirs, phase, rec, nextId>>

\* ------------------------------------------------ POST /api/deletecontainer

\* part_000:276-281: the handler drops DeleteContainer's result and writes
\* c.JSON({"error": false}); the status DeleteContainer set stays.
DeleteRespond(t, err) ==
    Respond(t, err, IF err = "nil" THEN 200 ELSE 500, "false")

\* cli.ContainerStop; its failure is logged only (docker.go:205-215).
DeleteStop(h, id) ==
    /\ Serving(h)
    /\ id \in Known
    /\ \E o \in ContainerStop(id) :
          /\ inst' = o.inst
          /\ th' = [th EXCEPT ![h] = [Idle EXCEPT !.op = "delete", !.pc = "remove",
                       !.id = id, !.calls = <<Call("stop", id, 0, "", o.err)>>]]
    /\ UNCHANGED <<records, dirs, phase, rec, nextId>>

\* The delete going on to the DELETE after a failed removal.
DeleteAfterRemove_Continue(err) == "dbdelete"

\* The branch of docker.go:221-226: a failed removal ends the delete.
DeleteAfterRemove(err) == IF err = "nil" THEN "dbdelete" ELSE "ret"

\* cli.ContainerRemove with Force (docker.go:217-226).
DeleteRemove(h) ==
    /\ th[h].op = "delete" /\ th[h].pc = "remove"
    /\ \E o \in ContainerRemove(th[h].id) :
          LET t == [th[h] EXCEPT !.calls =
                       Append(@, Call("remove", th[h].id, 0, "", o.err))]
          IN /\ inst' = o.inst
             /\ th' = [th EXCEPT ![h] =
                          IF DeleteAfterRemove(o.err) = "dbdelete"
                          THEN [t EXCEPT !.pc = "dbdelete"]
                          ELSE DeleteRespond(t, "Failed to remove container")]
    /\ UNCHANGED <<records, dirs, phase, rec, nextId>>

\* DELETE FROM containers WHERE id = ? (docker.go:228-235); affected is the
\* statement's RowsAffected, which the code drops.
DeleteRecord(h) ==
    /\ th[h].op = "delete" /\ th[h].pc = "dbdelete"
    /\ \/ /\ records' = MapDel(records, th[h].id)
          /\ th' = [th EXCEPT ![h] = [@ EXCEPT !.pc = "rmdir",
                       !.affected = Cardinality(DOMAIN records \cap {th[h].id})]]
       \/ /\ records' = records
          /\ th' = [th EXCEPT ![h] =
                       DeleteRespond(@, "Failed to delete container from database")]
    /\ UNCHANGED <<inst, dirs, phase, rec, nextId>>

\* os.RemoveAll of the volume directory (docker.go:237-245).
DeleteDir(h) ==
    /\ th[h].op = "delete" /\ th[h].pc = "rmdir"
    /\ dirs' = dirs \ {th[h].id}
    /\ th' = [th EXCEPT ![h] = DeleteRespond(@, "nil")]
    /\ UNCHANGED <<records, inst, phase, rec, nextId>>

\* ----------------------------------------------- POST /api/restartcontainer

\* part_000:302-308, 314-320, 324-330, 334-339: the response and the status
\* the handler keeps for id.
RestartRespond(t, err) ==
    IF err = "nil" THEN Respond(t, err, 200, "false")
    ELSE Respond(t, err, 500, err)

\* The branch of part_000:299-300, 310: restart what inspect found, look the
\* record up otherwise.
RestartBranch(insp) == IF insp # "error" THEN "restart" ELSE "query"

\* cli.ContainerInspect of "octoprint-" + id (part_000:297-300).
RestartInspect(h, id) ==
    /\ Serving(h)
    /\ id \in Known
    /\ \E insp \in ContainerInspect(id) :
          th' = [th EXCEPT ![h] = [Idle EXCEPT !.op = "restart",
                    !.pc = RestartBranch(insp), !.id = id]]
    /\ UNCHANGED <<records, inst, dirs, phase, rec, nextId>>

\* cli.ContainerRestart (part_000:301-309, 334-339).
RestartRestart(h) ==
    /\ th[h].op = "restart" /\ th[h].pc = "restart"
    /\ \E o \in ContainerRestart(th[h].id) :
          LET err == IF o.err = "nil" THEN "nil" ELSE "Failed to restart container"
              t == [th[h] EXCEPT !.calls =
                       Append(@, Call("restart", th[h].id, 0, "", o.err))]
          IN /\ inst' = o.inst
             /\ th' = [th EXCEPT ![h] = RestartRespond(t, err)]
    /\ UNCHANGED <<records, dirs, phase, rec, nextId>>

\* QueryRow(...).Scan of part_000:313-314 returns nil: the row is there.
RestartFound(recs, id) == id \in DOMAIN recs

\* SELECT device, port FROM containers WHERE id = ? (part_000:311-321): no
\* row ends the restart.
RestartQuery(h) ==
    /\ th[h].op = "restart" /\ th[h].pc = "query"
    /\ th' = [th EXCEPT ![h] =
                 IF RestartFound(records, th[h].id)
                 THEN [@ EXCEPT !.pc = "recreate",
                          !.dev = records[th[h].id].device,
                          !.port = records[th[h].id].port]
                 ELSE RestartRespond(@, "Failed to get container info")]
    /\ UNCHANGED <<records, inst, dirs, phase, rec, nextId>>

\* The recreation with a port taken from the allocator instead of the row's.
RestartRecreate_FreshPort(h) ==
    /\ th[h].op = "restart" /\ th[h].pc = "recreate"
    /\ \E o \in createOctoPrintContainer(th[h].id, th[h].dev,
                                         getNextAvailablePort(records)) :
          LET err == IF o.err = "nil" THEN "nil" ELSE "Failed to recreate container"
              t == [th[h] EXCEPT !.calls =
                       RuntimeCalls(@, th[h].id, getNextAvailablePort(records),
                                    th[h].dev, o.err)]
          IN /\ inst' = o.inst
             /\ th' = [th EXCEPT ![h] = RestartRespond(t, err)]
    /\ UNCHANGED <<records, dirs, phase, rec, nextId>>

\* utils.CreateOctoPrintContainer with the row's device and port
\* (part_000:323-339).
RestartRecreate(h) ==
    /\ th[h].op = "restart" /\ th[h].pc = "recreate"
    /\ \E o \in createOctoPrintContainer(th[h].id, th[h].dev, th[h].port) :
          LET err == IF o.err = "nil" THEN "nil" ELSE "Failed to recreate container"
              t == [th[h] EXCEPT !.calls =
                       RuntimeCalls(@, th[h].id, th[h].port, th[h].dev, o.err)]
          IN /\ inst' = o.inst
             /\ th' = [th EXCEPT ![h] = RestartRespond(t, err)]
    /\ UNCHANGED <<records, dirs, phase, rec, nextId>>

\* ------------------------------------------------ POST /api/renamecontainer

\* The UPDATE without its WHERE clause.
UpdateName_AllRows(recs, id, name) ==
    [i \in DOMAIN recs |-> [recs[i] EXCEPT !.name = name]]

\* The UPDATE setting the column device instead of name.
UpdateName_Device(recs, id, name) ==
    [i \in DOMAIN recs |-> IF i = id THEN [recs[i] EXCEPT !.device = name] ELSE recs[i]]

\* UPDATE containers SET name = ? WHERE id = ? on the table.
UpdateName(recs, id, name) ==
    [i \in DOMAIN recs |-> IF i = id THEN [recs[i] EXCEPT !.name = name] ELSE recs[i]]

\* part_000:343-370.
Rename(h, id, name) ==
    /\ Serving(h)
    /\ id \in Known
    /\ records' = UpdateName(records, id, name)
    /\ th' = [th EXCEPT ![h] =
                 Respond([Idle EXCEPT !.op = "rename", !.id = id, !.name = name],
                         "nil", 200, "false")]
    /\ UNCHANGED <<inst, dirs, phase, rec, nextId>>

\* -------------------------------------------------- GET /api/getcontainers

\* The ContainerInfo of each row, in the table's order (part_000:230-248).
ListContainers(recs) ==
    LET ids == SortedIds(DOMAIN recs)
    IN [k \in 1..Len(ids) |->
           [id |-> ids[k], port |-> recs[ids[k]].port, name |-> recs[ids[k]].name,
            device |-> recs[ids[k]].device]]

\* part_000:212-261.
GetContainers(h) ==
    /\ Serving(h)
    /\ th' = [th EXCEPT ![h] =
                 [Respond([Idle EXCEPT !.op = "list"], "nil", 200, "false")
                     EXCEPT !.list = ListContainers(records)]]
    /\ UNCHANGED <<records, inst, dirs, phase, rec, nextId>>

\* The response is sent and the handler's goroutine ends.
Return(h) ==
    /\ th[h].pc = "ret"
    /\ th' = [th EXCEPT ![h] = Idle]
    /\ UNCHANGED <<records, inst, dirs, phase, rec, nextId>>

\* ------------------------------------------ startup: RecreateAllContainers

\* The query read with a single rows.Next(): the first row only.
Rows_First(recs) ==
    LET ids == SortedIds(DOMAIN recs)
    IN [k \in 1..(IF Len(ids) > 0 THEN 1 ELSE 0) |->
           [id |-> ids[k], device |-> recs[ids[k]].device, port |-> recs[ids[k]].port]]

\* SELECT id, device, port FROM containers: the rows in the table's order.
Rows(recs) ==
    LET ids == SortedIds(DOMAIN recs)
    IN [k \in 1..Len(ids) |->
           [id |-> ids[k], device |-> recs[ids[k]].device, port |-> recs[ids[k]].port]]

\* What the pass did with one row: what inspect said, the operation it went
\* on to ("none", "start", "create") with the port and device it passed, and
\* the operation's result.
Done(row, insp, op, port, dev, err) ==
    [id |-> row.id, insp |-> insp, op |-> op, port |-> port, dev |-> dev, err |-> err]

\* The branches without the State.Running check of docker.go:152-154.
RecBranch_NoRunningCheck(insp) == IF insp = "error" THEN "create" ELSE "start"

\* The branches of a pass that recreates what is missing and starts nothing.
RecBranch_SkipStopped(insp) == IF insp = "error" THEN "create" ELSE "skip"

\* The branches of docker.go:151-162 on what ContainerInspect returned.
RecBranch(insp) ==
    IF insp = "running" THEN "skip"
    ELSE IF insp = "stopped" THEN "start"
    ELSE "create"

\* errors = append(errors, ...) of docker.go:157 and 164.
RecErrors(errors, id, err) ==
    IF err = "nil" THEN errors ELSE Append(errors, <<err, id>>)

\* The per-identity outcome the pass hands to main (part_000:74): whether the
\* identity ended the pass running.
RecStatus(status, id, err) == MapSet(status, id, err = "nil")

\* docker.go:131-137; a failing query returns no status and main stops with
\* log.Fatal (part_000:75-78).
RecQuery ==
    /\ phase = "startup" /\ rec.pc = "query"
    /\ \/ /\ rec' = [rec EXCEPT !.pc = "inspect", !.rows = Rows(records)]
          /\ phase' = phase
       \/ /\ rec' = [rec EXCEPT !.pc = "fatal", !.res = "failed to query containers"]
          /\ phase' = "halted"
    /\ UNCHANGED <<records, inst, dirs, th, nextId>>

\* rows.Next, rows.Scan and cli.ContainerInspect (docker.go:138-154): a
\* running container is left alone and the loop goes on.
RecInspect ==
    /\ phase = "startup" /\ rec.pc = "inspect" /\ rec.rows # <<>>
    /\ LET row == Head(rec.rows)
       IN \E insp \in ContainerInspect(row.id) :
             LET r == [rec EXCEPT !.rows = Tail(@), !.cur = row, !.insp = insp]
             IN rec' = IF RecBranch(insp) = "skip"
                       THEN [r EXCEPT !.status = RecStatus(@, row.id, "nil"),
                                !.log = Append(@, Done(row, insp, "none", 0, "", "nil"))]
                       ELSE [r EXCEPT !.pc = RecBranch(insp)]
    /\ UNCHANGED <<records, inst, dirs, phase, th, nextId>>

\* The pass returning at the first start that fails instead of going on.
RecStart_Abort ==
    /\ phase = "startup" /\ rec.pc = "start"
    /\ \E o \in ContainerStart(rec.cur.id) :
          /\ inst' = o.inst
          /\ rec' = [rec EXCEPT !.pc = IF o.err = "nil" THEN "inspect" ELSE "ret",
                        !.res = IF o.err = "nil" THEN ""
                                ELSE "encountered errors while starting containers",
                        !.errors = RecErrors(@, rec.cur.id, o.err),
                        !.status = RecStatus(@, rec.cur.id, o.err),
                        !.log = Append(@, Done(rec.cur, rec.insp, "start", 0, "", o.err))]
    /\ UNCHANGED <<records, dirs, phase, th, nextId>>

\* cli.ContainerStart of the container inspect found stopped (docker.go:155-159).
RecStart ==
    /\ phase = "startup" /\ rec.pc = "start"
    /\ \E o \in ContainerStart(rec.cur.id) :
          /\ inst' = o.inst
          /\ rec' = [rec EXCEPT !.pc = "inspect",
                        !.errors = RecErrors(@, rec.cur.id, o.err),
                        !.status = RecStatus(@, rec.cur.id, o.err),
                        !.log = Append(@, Done(rec.cur, rec.insp, "start", 0, "", o.err))]
    /\ UNCHANGED <<records, dirs, phase, th, nextId>>

\* The recreation with a port taken from the allocator instead of the row's.
RecCreate_FreshPort ==
    /\ phase = "startup" /\ rec.pc = "create"
    /\ \E o \in createOctoPrintContainer(rec.cur.id, rec.cur.device,
                                         getNextAvailablePort(records)) :
          /\ inst' = o.inst
          /\ rec' = [rec EXCEPT !.pc = "inspect",
                        !.errors = RecErrors(@, rec.cur.id, o.err),
                        !.status = RecStatus(@, rec.cur.id, o.err),
                        !.log = Append(@, Done(rec.cur, rec.insp, "create",
                                   getNextAvailablePort(records), rec.cur.device, o.err))]
    /\ UNCHANGED <<records, dirs, phase, th, nextId>>

\* createOctoPrintContainer with the row's id, device and port (docker.go:162-166).
RecCreate ==
    /\ phase = "startup" /\ rec.pc = "create"
    /\ \E o \in createOctoPrintContainer(rec.cur.id, rec.cur.device, rec.cur.port) :
          /\ inst' = o.inst
          /\ rec' = [rec EXCEPT !.pc = "inspect",
                        !.errors = RecErrors(@, rec.cur.id, o.err),
                        !.status = RecStatus(@, rec.cur.id, o.err),
                        !.log = Append(@, Done(rec.cur, rec.insp, "create",
                                               rec.cur.port, rec.cur.device, o.err))]
    /\ UNCHANGED <<records, dirs, phase, th, nextId>>

\* After the last row (docker.go:169-177): the errors, if any, as one error.
RecReturn ==
    /\ phase = "startup" /\ rec.pc = "inspect" /\ rec.rows = <<>>
    /\ rec' = [rec EXCEPT !.pc = "ret",
                  !.res = IF Len(rec.errors) > 0
                          THEN "encountered errors while starting containers"
                          ELSE "nil"]
    /\ UNCHANGED <<records, inst, dirs, phase, th, nextId>>

\* The server listening from the start of main, the pass still to run.
Listen_Early ==
    /\ phase = "startup"
    /\ phase' = "serving"
    /\ rec' = RecIdle
    /\ UNCHANGED <<records, inst, dirs, th, nextId>>

\* main goes on after the pass (part_000:74-82), registers the handlers and
\* reaches app.Listen (part_000:377).
Listen ==
    /\ phase = "startup" /\ rec.pc = "ret"
    /\ phase' = "serving"
    /\ rec' = RecIdle
    /\ UNCHANGED <<records, inst, dirs, th, nextId>>

\* GET /api/reboot (part_000:99-111): the host reboots and the manager
\* starts again, with the table, the containers and the directories as they
\* were.  Taken between requests.
Reboot ==
    /\ phase = "serving"
    /\ \A h \in Handlers : th[h] = Idle
    /\ phase' = "startup"
    /\ rec' = RecIdle
    /\ UNCHANGED <<records, inst, dirs, th, nextId>>

\* ------------------------------------------------------------ environment

\* A container exits on its own (a crash, its device unplugged).
EnvStop(id) ==
    /\ inst[id].st = "running"
    /\ inst' = [inst EXCEPT ![id].st = "stopped"]
    /\ UNCHANGED <<records, dirs, phase, rec, th, nextId>>

\* A container is removed outside the manager (docker rm -f).
EnvRemove(id) ==
    /\ Exists(id)
    /\ inst' = [inst EXCEPT ![id] = Absent]
    /\ UNCHANGED <<records, dirs, phase, rec, th, nextId>>

\* ---------------------------------------------------------- specifications

Startup == RecQuery \/ RecInspect \/ RecStart \/ RecCreate \/ RecReturn \/ Listen

Environment == \E id \in Ids : EnvStop(id) \/ EnvRemove(id)

Request(h) ==
    \/ \E d \in Devices : CreateAlloc(h, d)
    \/ CreateMkdir(h) \/ CreateRuntime(h) \/ CreateInsert(h)
    \/ \E id \in Ids : DeleteStop(h, id)
    \/ DeleteRemove(h) \/ DeleteRecord(h) \/ DeleteDir(h)
    \/ \E id \in Ids : RestartInspect(h, id)
    \/ RestartRestart(h) \/ RestartQuery(h) \/ RestartRecreate(h)
    \/ \E id \in Ids, n \in Names : Rename(h, id, n)
    \/ GetContainers(h)
    \/ Return(h)

\* Requests one after another: a single handler is ever in flight.
Next == Startup \/ Reboot \/ Environment \/ \E h \in SeqHandlers : Request(h)

Spec == Init /\ [][Next]_vars

\* Requests served concurrently.
NextConc == Startup \/ Reboot \/ Environment \/ \E h \in Handlers : Request(h)

SpecConc == Init /\ [][NextConc]_vars

\* The allocator on any table: the manager serving with a table left by
\* earlier runs, any rows of StoredIds with any ports of StoredPorts (gaps
\* and all), and create requests one after another.
InitPort ==
    /\ \E S \in SUBSET StoredIds :
          records \in [S -> [device : {"usbA"}, port : StoredPorts, name : {NullName}]]
    /\ inst = [i \in Ids |-> Absent]
    /\ dirs = {}
    /\ phase = "serving"
    /\ rec = RecIdle
    /\ th = [h \in Handlers |-> Idle]
    /\ nextId = 1

NextPort ==
    \E h \in SeqHandlers :
        \/ \E d \in Devices : CreateAlloc(h, d)
        \/ CreateMkdir(h) \/ CreateRuntime(h) \/ CreateInsert(h)
        \/ Return(h)

SpecPort == InitPort /\ [][NextPort]_vars

\* The pass on its own with every call succeeding: the manager starting on
\* any table of rows of Ids with ports of ConvPorts, the container of each
\* row running, stopped or absent (when there, bound as its row says: every
\* create of a row's container is given the row's device and port), and
\* containers without a row left by creates that failed.  No two running
\* containers hold the same port.  No request is served before the next
\* start of the manager.
ConvPorts == BasePort..(BasePort + MaxIds - 1)

InitConv ==
    /\ \E S \in SUBSET Ids :
          records \in [S -> [device : Devices, port : ConvPorts, name : {NullName}]]
    /\ inst \in [Ids -> {Absent} \cup [st : {"running", "stopped"},
                                       port : ConvPorts, dev : {"usbA"}]
                           \cup {[st |-> x, port |-> records[i].port,
                                   dev |-> records[i].device] :
                                  x \in {"running", "stopped"}, i \in DOMAIN records}]
    /\ \A i \in DOMAIN records :
          Exists(i) => inst[i].port = records[i].port /\ inst[i].dev = records[i].device
    /\ \A i, j \in Ids :
          i # j /\ inst[i].st = "running" /\ inst[j].st = "running"
             => inst[i].port # inst[j].port
    /\ dirs = DOMAIN records
    /\ phase = "startup"
    /\ rec = RecIdle
    /\ th = [h \in Handlers |-> Idle]
    /\ nextId = MaxIds + 1

\* The query of docker.go:131 answering.
ConvQuery == RecQuery /\ phase' = "startup"

\* ContainerInspect answering with what is there: the container's state, or
\* no such container.
ConvInspect ==
    RecInspect /\ rec'.insp = (IF Exists(rec'.cur.id) THEN inst[rec'.cur.id].st
                               ELSE "error")

\* The call on the row the pass has just handled returned nil.
LastOk(r) == r.log # <<>> /\ r.log[Len(r.log)].err = "nil"

\* ContainerStart succeeding.
ConvStart == RecStart /\ LastOk(rec')

\* createOctoPrintContainer succeeding.
ConvCreate == RecCreate /\ LastOk(rec')

NextConv ==
    ConvQuery \/ ConvInspect \/ ConvStart \/ ConvCreate \/ RecReturn \/ Listen \/ Reboot

\* main runs the pass to its end: nothing else is scheduled before Listen.
SpecConv == InitConv /\ [][NextConv]_vars /\ WF_vars(NextConv)

\* Deletes and restarts served concurrently on containers that are in
\* place: the manager serving with any table of rows of Ids with distinct
\* ports, the container of each row running, stopped or absent and bound as
\* its row says, a directory for each row, and no container without a row.
InitRace ==
    /\ \E S \in SUBSET Ids :
          records \in [S -> [device : Devices, port : ConvPorts, name : {NullName}]]
    /\ \A i, j \in DOMAIN records : i # j => records[i].port # records[j].port
    /\ inst \in [Ids -> {Absent}
                           \cup {[st |-> x, port |-> records[i].port,
                                   dev |-> records[i].device] :
                                  x \in {"running", "stopped"}, i \in DOMAIN records}]
    /\ \A i \in Ids :
          Exists(i) => /\ i \in DOMAIN records
                       /\ inst[i].port = records[i].port
                       /\ inst[i].dev = records[i].device
    /\ dirs = DOMAIN records
    /\ phase = "serving"
    /\ rec = RecIdle
    /\ th = [h \in Handlers |-> Idle]
    /\ nextId = MaxIds + 1

NextRace ==
    \E h \in Handlers :
        \/ \E id \in Ids : DeleteStop(h, id)
        \/ DeleteRemove(h) \/ DeleteRecord(h) \/ DeleteDir(h)
        \/ \E id \in Ids : RestartInspect(h, id)
        \/ RestartRestart(h) \/ RestartQuery(h) \/ RestartRecreate(h)
        \/ Return(h)

SpecRace == InitRace /\ [][NextRace]_vars

\* ================================================================== claims

\* A create of handler h holds a port it was allocated and has not yet
\* inserted its row.
Allocated(h) == th[h].op = "create" /\ th[h].pc \in {"mkdir", "runtime", "insert"}

PortsOf(recs) == {recs[i].port : i \in DOMAIN recs}

\* C1: with the creates run one after another (any devices, deletes in
\* between), the ports of the rows of the table are pairwise distinct in
\* every reachable state, and the port a create was allocated is the port of
\* no row of the table.
C1_PortsDistinct ==
    /\ \A i, j \in DOMAIN records : i # j => records[i].port # records[j].port
    /\ \A h \in Handlers : Allocated(h) => th[h].port \notin PortsOf(records)

\* C1's case: two creates with distinct devices have both inserted their row.
C1_Witness ==
    /\ Cardinality(DOMAIN records) = 2
    /\ \A i, j \in DOMAIN records : i # j => records[i].device # records[j].device
    /\ \E h \in Handlers : th[h].op = "create" /\ th[h].pc = "ret" /\ th[h].err = "nil"

\* C2: two creates in flight never hold the same port, no two rows have the
\* same port and no two containers are bound to the same host port.
C2_CreatesSerialized ==
    /\ \A a, b \in Handlers :
          a # b /\ Allocated(a) /\ Allocated(b) => th[a].port # th[b].port
    /\ \A i, j \in DOMAIN records : i # j => records[i].port # records[j].port
    /\ \A i, j \in Ids :
          i # j /\ Exists(i) /\ Exists(j) => inst[i].port # inst[j].port

\* C3: the port a create is allocated is 2000 on an empty table and the
\* greatest port of the table plus one otherwise, and the allocation leaves
\* the table as it was.
C3_NextPort ==
    /\ [](\A h \in Handlers :
            th[h].op = "create" /\ th[h].pc = "mkdir" =>
               IF DOMAIN records = {} THEN th[h].port = 2000
               ELSE /\ th[h].port - 1 \in PortsOf(records)
                    /\ \A p \in PortsOf(records) : p < th[h].port)
    /\ [][\A h \in Handlers :
            th[h].pc = "idle" /\ th'[h].op = "create" => records' = records]_vars

\* C3's case: a port was allocated on a table with a gap between its ports.
C3_Witness ==
    \E h \in Handlers :
        /\ th[h].op = "create" /\ th[h].pc = "mkdir"
        /\ Cardinality(PortsOf(records)) = 2
        /\ th[h].port - 2 \notin PortsOf(records)
        /\ th[h].port = 2004

\* The identities a list() run now answers with.
Listed == {ListContainers(records)[k].id : k \in DOMAIN ListContainers(records)}

\* A delete of handler h has returned.
Deleted(h) == th[h].op = "delete" /\ th[h].pc = "ret"

\* C4 as stated: once delete(identity) has returned, whatever failed in it,
\* a list() that follows does not include identity.
C4_DeletedNeverListed == \A h \in Handlers : Deleted(h) => th[h].id \notin Listed

\* C4 amended: once delete(identity) has returned with the forced removal and
\* the record deletion both done, whether or not the stop failed, a list()
\* that follows does not include identity.
C4_RemovedNeverListed ==
    \A h \in Handlers : Deleted(h) /\ th[h].err = "nil" => th[h].id \notin Listed

\* C4's case: a delete whose stop failed has removed the container and the row.
C4_Witness ==
    \E h \in Handlers :
        /\ Deleted(h) /\ th[h].err = "nil"
        /\ th[h].calls[1].op = "stop" /\ th[h].calls[1].err # "nil"
        /\ th[h].affected = 1

\* What the startup pass did with the rows it has gone through.
LogEntries == {rec.log[k] : k \in DOMAIN rec.log}

C7_RestartUnknownFails ==
    \A h \in Handlers :
        th[h].op = "restart" /\ th[h].id \notin DOMAIN records =>
            /\ th[h].calls = <<>>
            /\ th[h].pc = "ret" => th[h].err = "Failed to get container info"

\* C8: a create whose device symlink does not resolve answers with an error,
\* inserts no row and changes no row, and the port it held is the port the
\* next create is allocated.
C8_SymlinkFailure ==
    /\ [](\A h \in Handlers :
            th[h].op = "create" /\ th[h].pc = "ret" /\ th[h].err = "symlink" =>
               /\ th[h].res.status = 500
               /\ th[h].id \notin DOMAIN records
               /\ getNextAvailablePort(records) = th[h].port)
    /\ [][\A h \in Handlers :
            th[h].op = "create" /\ th'[h].op = "create" /\ th'[h].err = "symlink"
               => records' = records]_vars

\* C8's case: with a row in the table, a create failed on its symlink.
C8_Witness ==
    \E h \in Handlers :
        /\ th[h].op = "create" /\ th[h].pc = "ret" /\ th[h].err = "symlink"
        /\ DOMAIN records # {}
        /\ th[h].port = 2001

\* C9: a rename changes the name of the row of that identity and nothing
\* else: the rows of the table, the device and port of each, every other
\* row, every container and every directory are as before.
C9_RenameFrame ==
    [][\A h \in Handlers :
          th[h].pc = "idle" /\ th'[h].op = "rename" =>
             /\ DOMAIN records' = DOMAIN records
             /\ \A i \in DOMAIN records :
                   /\ records'[i].device = records[i].device
                   /\ records'[i].port = records[i].port
                   /\ i # th'[h].id => records'[i] = records[i]
                   /\ i = th'[h].id => records'[i].name = th'[h].name
             /\ inst' = inst
             /\ dirs' = dirs]_vars

\* C9's case: one of two rows was renamed while its container runs.
C9_Witness ==
    \E h \in Handlers :
        /\ th[h].op = "rename" /\ th[h].pc = "ret"
        /\ th[h].id \in DOMAIN records
        /\ records[th[h].id].name = th[h].name
        /\ inst[th[h].id].st = "running"
        /\ \E j \in DOMAIN records : j # th[h].id /\ records[j].name = NullName

RECURSIVE Failures(_)
Failures(log) ==
    IF log = <<>> THEN <<>>
    ELSE (IF Head(log).err = "nil" THEN <<>>
          ELSE << <<Head(log).err, Head(log).id>> >>) \o Failures(Tail(log))

\* C11: whatever fails for some rows, the pass goes on to the next row after
\* every row; when it returns it has handled every row of the table once, in
\* the table's order, each by what inspect said of it (nothing, a start, a
\* create); the failures are collected in that order and come back as one
\* error, which is set only when the pass returns.
C11_NeverAborts ==
    /\ [](rec.pc = "ret" =>
            /\ [k \in DOMAIN rec.log |-> rec.log[k].id]
                  = [k \in DOMAIN Rows(records) |-> Rows(records)[k].id]
            /\ \A e \in LogEntries :
                  e.op = (IF e.insp = "running" THEN "none"
                          ELSE IF e.insp = "stopped" THEN "start" ELSE "create")
            /\ rec.errors = Failures(rec.log)
            /\ (rec.res = "nil") = (rec.errors = <<>>))
    /\ [](rec.pc \in {"inspect", "start", "create"} => rec.res = "")
    /\ [][Len(rec'.log) > Len(rec.log) => rec'.pc = "inspect"]_vars

\* C11's case: the pass failed on its first row and started or recreated the
\* container of its second.
C11_Witness ==
    /\ rec.pc = "ret" /\ Len(rec.log) = 2
    /\ rec.log[1].err # "nil"
    /\ rec.log[2].op \in {"start", "create"} /\ rec.log[2].err = "nil"
    /\ inst[rec.log[2].id].st = "running"
    /\ rec.res = "encountered errors while starting containers"

\* The forced removal of the delete t has failed.
RemoveFailed(t) ==
    t.op = "delete" /\ Len(t.calls) = 2 /\ t.calls[2].err # "nil"

\* C12: a delete whose forced removal failed has returned with that failure
\* and takes no further step, and no step of a delete up to and including
\* the failed removal changes a row of the table or a directory.
C12_RemoveFailureStops ==
    /\ [](\A h \in Handlers :
            RemoveFailed(th[h]) =>
               th[h].pc = "ret" /\ th[h].err = "Failed to remove container")
    /\ [][\A h \in Handlers :
            th'[h].op = "delete" /\ (th'[h].pc = "remove" \/ RemoveFailed(th'[h]))
               => records' = records /\ dirs' = dirs]_vars

\* C12's case: the removal failed for an identity that has its row, its
\* directory and its container.
C12_Witness ==
    \E h \in Handlers :
        /\ RemoveFailed(th[h]) /\ th[h].pc = "ret"
        /\ th[h].id \in DOMAIN records
        /\ th[h].id \in dirs
        /\ Exists(th[h].id)

\* C13: a create issues its runtime create only with the directory of the new
\* identity in place; a row enters the table only from a create that is at
\* its INSERT after its runtime create and start returned without error, with
\* the directory in place; a create that returned with a runtime failure has
\* no row.
C13_CreateOrder ==
    /\ [][\A h \in Handlers :
            th[h].op = "create" /\ Len(th'[h].calls) > Len(th[h].calls)
               => th[h].id \in dirs]_vars
    /\ [][\A i \in DOMAIN records' \ DOMAIN records :
            \E h \in Handlers :
               /\ th[h].op = "create" /\ th[h].pc = "insert" /\ th[h].id = i
               /\ th[h].calls = <<Call("create", i, th[h].port, th[h].dev, "nil")>>
               /\ i \in dirs]_vars
    /\ [](\A h \in Handlers :
            th[h].op = "create" /\ th[h].pc = "ret" /\ th[h].err \in {"create", "start"}
               => th[h].id \notin DOMAIN records)

\* C13's case: a create went through its three steps and its container runs.
C13_Witness ==
    \E h \in Handlers :
        /\ th[h].op = "create" /\ th[h].pc = "ret" /\ th[h].err = "nil"
        /\ th[h].id \in dirs
        /\ th[h].id \in DOMAIN records
        /\ inst[th[h].id] = [st |-> "running", port |-> records[th[h].id].port,
                             dev |-> records[th[h].id].device]

\* C14: a create that failed on its device symlink has changed nothing: the
\* new identity has no row, no container and no directory.
C14_NoMutation ==
    \A h \in Handlers :
        th[h].op = "create" /\ th[h].pc = "ret" /\ th[h].err = "symlink" =>
            /\ th[h].id \notin DOMAIN records
            /\ ~Exists(th[h].id)
            /\ th[h].id \notin dirs

\* C15: a request is in flight only while the manager is serving; the
\* manager starts serving only from the pass having returned after its last
\* row, and no request is accepted while a pass runs; a pass that returned,
\* with or without failures, lets main go on to Listen.
C15_PassBeforeServing ==
    /\ [](\A h \in Handlers : th[h] # Idle => phase = "serving")
    /\ [](phase = "serving" => rec = RecIdle)
    /\ [][phase # "serving" /\ phase' = "serving"
            => rec.pc = "ret" /\ rec.rows = <<>>
               /\ {e.id : e \in LogEntries} = DOMAIN records]_vars
    /\ [](phase = "startup" /\ rec.pc = "ret" => ENABLED Listen)

\* C15's case: the pass has returned with a failure for one row, after it
\* handled every row, and main can go on to Listen.
C15_Witness ==
    /\ phase = "startup" /\ rec.pc = "ret"
    /\ rec.res = "encountered errors while starting containers"
    /\ Len(rec.errors) = 1 /\ Len(rec.log) = 2
    /\ ENABLED Listen

\* C16: a restart that finds no container goes to the table; with the row
\* there it goes on to recreate the container with the row's device and
\* port; the recreation changes no row and hands out no identity, and when it
\* succeeds the container runs bound to the row's port and device.
C16_RestartRecreates ==
    /\ [][\A h \in Handlers :
            th[h] = Idle /\ th'[h].op = "restart" /\ ~Exists(th'[h].id)
               => th'[h].pc = "query"]_vars
    /\ [][\A h \in Handlers :
            /\ th[h].op = "restart" /\ th[h].pc = "query"
            /\ th[h].id \in DOMAIN records /\ th'[h] # th[h]
            => /\ th'[h].pc = "recreate"
               /\ th'[h].port = records[th[h].id].port
               /\ th'[h].dev = records[th[h].id].device
               /\ records' = records /\ inst' = inst /\ nextId' = nextId]_vars
    /\ [][\A h \in Handlers :
            th[h].op = "restart" /\ th[h].pc = "recreate" /\ th'[h] # th[h]
            => /\ th'[h].pc = "ret"
               /\ records' = records /\ nextId' = nextId
               /\ th[h].id \in DOMAIN records
               /\ th'[h].err = "nil" =>
                     /\ th'[h].calls =
                           <<Call("create", th[h].id, records[th[h].id].port,
                                  records[th[h].id].device, "nil")>>
                     /\ inst'[th[h].id] =
                           [st |-> "running", port |-> records[th[h].id].port,
                            dev |-> records[th[h].id].device]]_vars

\* C16's case: with two rows, the container of the row with the lower port
\* was recreated by a restart and runs on that port.
C16_Witness ==
    \E h \in Handlers :
        /\ th[h].op = "restart" /\ th[h].pc = "ret" /\ th[h].err = "nil"
        /\ Len(th[h].calls) = 1 /\ th[h].calls[1].op = "create"
        /\ th[h].id \in DOMAIN records
        /\ inst[th[h].id].st = "running"
        /\ inst[th[h].id].port = records[th[h].id].port
        /\ \E j \in DOMAIN records : records[j].port > records[th[h].id].port

\* C17: a delete whose forced removal failed answers its caller with an
\* error: an error status and a body that does not say "error": false.
C17_RemoveFailureReported ==
    \A h \in Handlers :
        RemoveFailed(th[h]) /\ th[h].pc = "ret" =>
            th[h].res.status >= 400 /\ th[h].res.error # "false"

\* Every row's container is running.
AllRunning == \A i \in DOMAIN records : inst[i].st = "running"

\* The call the pass is about to make cannot succeed: another running
\* container holds the host port.
Blocked ==
    /\ phase = "startup"
    /\ \/ rec.pc = "start" /\ PortBusy(rec.cur.id, inst[rec.cur.id].port)
       \/ rec.pc = "create" /\ PortBusy(rec.cur.id, rec.cur.port)

\* C18: with every call succeeding and nothing else running, a pass that has
\* returned leaves the container of every row running; a pass that runs with
\* every row's container running has no start or create to make, handles
\* each row with no call but the inspect, and leaves them all running (so a
\* second pass right after the first issues none); and every pass that
\* begins returns, unless a call of it cannot succeed.
C18_Convergence ==
    /\ [](rec.pc = "ret" => AllRunning)
    /\ [](rec.pc = "ret" => {e.id : e \in LogEntries} = DOMAIN records)
    /\ [](AllRunning => rec.pc \notin {"start", "create"})
    /\ [][AllRunning /\ Len(rec'.log) > Len(rec.log)
            => rec'.log[Len(rec'.log)].op = "none"]_vars
    /\ [][AllRunning => AllRunning']_vars
    /\ (phase = "startup" /\ rec.pc = "query") ~> (rec.pc = "ret" \/ Blocked)

\* C18's case: a pass that started one container and recreated another has
\* returned, and both run.
C18_Witness ==
    /\ rec.pc = "ret" /\ AllRunning
    /\ \E e \in LogEntries : e.insp = "stopped" /\ e.op = "start"
    /\ \E e \in LogEntries : e.insp = "error" /\ e.op = "create"
    /\ \A e \in LogEntries : inst[e.id].st = "running"

\* C19: the pass and restart call createOctoPrintContainer for an identity
\* only when its container does not exist: never for a container that is
\* there and whose inspect returned an error.
C19_CreateOnlyWhenAbsent ==
    [][/\ Len(rec'.log) > Len(rec.log) /\ rec'.log[Len(rec'.log)].op = "create"
          => ~Exists(rec.cur.id)
       /\ \A h \in Handlers :
             th[h].op = "restart" /\ th[h].pc = "recreate" /\ th'[h] # th[h]
                => ~Exists(th[h].id)]_vars

DevicesOf(recs) == {recs[i].device : i \in DOMAIN recs}

DevDistinct(recs) ==
    \A i, j \in DOMAIN recs : i # j => recs[i].device # recs[j].device

\* C20 as stated: no two rows of the table have the same device.
C20_OneRecordPerDevice == DevDistinct(records)

\* C20 amended: while no create inserts a row for a device that a row of the
\* table already has, no two rows have the same device; an INSERT that
\* succeeds adds the one row of its identity with the device the create was
\* given, and the device of a row never changes.
C20_DistinctWhenUnbound ==
    /\ [][/\ DevDistinct(records)
          /\ \A h \in Handlers :
                th[h].op = "create" /\ th[h].pc = "insert"
                   => th[h].dev \notin DevicesOf(records)
          => DevDistinct(records')]_vars
    /\ [][\A h \in Handlers :
            th[h].op = "create" /\ th[h].pc = "insert" /\ th'[h].err = "nil"
               => /\ DOMAIN records' = DOMAIN records \cup {th[h].id}
                  /\ th[h].id \notin DOMAIN records
                  /\ records'[th[h].id].device = th[h].dev]_vars
    /\ [][\A i \in DOMAIN records \cap DOMAIN records' :
            records'[i].device = records[i].device]_vars

\* C20's case: a create for a device that no row had has added its row next
\* to the row of another device, and the containers of both run.
C20_Witness ==
    \E h \in Handlers :
        /\ th[h].op = "create" /\ th[h].pc = "ret" /\ th[h].err = "nil"
        /\ th[h].id \in DOMAIN records
        /\ records[th[h].id].device = th[h].dev
        /\ \E j \in DOMAIN records :
              /\ j # th[h].id /\ records[j].device # th[h].dev
              /\ inst[j].st = "running"
        /\ inst[th[h].id].st = "running"
        /\ DevDistinct(records)

\* C21: a create that returned an error has left no container of the new
\* identity; and with the manager serving and no request in flight, every
\* container has its row.
C21_NoOrphan ==
    /\ \A h \in Handlers :
          th[h].op = "create" /\ th[h].pc = "ret" /\ th[h].err # "nil"
             => ~Exists(th[h].id)
    /\ phase = "serving" /\ (\A h \in Handlers : th[h] = Idle)
          => \A i \in Ids : Exists(i) => i \in DOMAIN records

\* C22: with no request at work any more, a delete that has removed the row
\* of its identity has left no container of that identity, and no running
\* container is without a row.
C22_DeleteRace ==
    (\A h \in Handlers : th[h].pc \in {"idle", "ret"}) =>
        \A h \in Handlers :
            th[h].op = "delete" /\ th[h].affected = 1 =>
                /\ ~Exists(th[h].id)
                /\ \A i \in Ids : inst[i].st = "running" => i \in DOMAIN records

====
